---------------------------- MODULE Spec2Model ----------------------------
(***************************************************************************)
(* A model of src/main.py: the directory comparator.                       *)
(*                                                                         *)
(* The filesystem is a function from absolute paths (sequences of names)   *)
(* to nodes.  compare_directories, do_action and are_directories_equal     *)
(* are translated from the source; the library calls they make (os.walk,   *)
(* os.path.isfile, shutil.copy2, filecmp.dircmp) are modelled by what the  *)
(* library does on such a filesystem.  SHA-256 is modelled as an injective *)
(* encoding of the bytes read (no collisions on the bounded domain).       *)
(* Modification times and permission bits copied by copy2 are not part of  *)
(* the fingerprint and are not modelled; a file's readability is.          *)
(***************************************************************************)
EXTENDS Integers, Sequences, FiniteSets, TLC

VARIABLES
    fs,         \* the filesystem: absolute path -> node
    fs_start,   \* the filesystem when the run started (nothing else writes it)
    pc,         \* where the pipeline of main() stands
    diff1,      \* outcome of the first compare_directories
    applied,    \* outcome of do_action
    diff2,      \* outcome of the compare_directories after do_action
    equal       \* outcome of are_directories_equal

vars == <<fs, fs_start, pc, diff1, applied, diff2, equal>>

---------------------------------------------------------------------------
(* Bounds of the model. *)

\* Most nodes (files and directories) below the source root.
MaxSourceNodes == 4
\* Most nodes below the target root.
MaxTargetNodes == 2
\* Most source files whose read permission is missing.
MaxUnreadable == 1
\* Most nodes below each root given to are_directories_equal.
MaxEqNodes == 2

\* Entry names of the pipeline's trees; "d" has no extension.
Names == {"a.txt", "d"}
\* Entry names of the trees are_directories_equal is applied to.
EqNames == {"a.txt", ".git"}
\* File contents (byte strings).
Contents == {<<1>>, <<2>>}

---------------------------------------------------------------------------
(* Program constants. *)

COPY == "copy"
MODIFY == "modify"
NO_ACTION == "no_action"

\* main(): resolve_dir("dir1"), resolve_dir("dir2")
source_dir == <<"dir1">>
target_dir == <<"dir2">>

\* get_file_hash(file_path, algorithm="sha256", block_size=4096)
block_size == 4096

\* filecmp.DEFAULT_IGNORES, used by dircmp when ignore=None
DEFAULT_IGNORES ==
    {"RCS", "CVS", "tags", ".git", ".hg", ".bzr", "_darcs", "__pycache__"}

---------------------------------------------------------------------------
(* The filesystem. *)

DirNode == [kind |-> "dir", data |-> <<>>, readable |-> TRUE]
FileNode(c, r) == [kind |-> "file", data |-> c, readable |-> r]

Parent(p) == SubSeq(p, 1, Len(p) - 1)
Basename(p) == p[Len(p)]
IsPrefix(r, p) == Len(r) <= Len(p) /\ SubSeq(p, 1, Len(r)) = r

\* os.path.join(root, rel)
Join(root, rel) == root \o rel
\* os.path.relpath(path, root), for a path below root
RelPath(p, root) == SubSeq(p, Len(root) + 1, Len(p))

\* The root of the whole filesystem always exists and is a directory.
Exists(f, p) == p = <<>> \/ p \in DOMAIN f
IsDir(f, p) == p = <<>> \/ (p \in DOMAIN f /\ f[p].kind = "dir")
\* os.path.isfile
IsFile(f, p) == p \in DOMAIN f /\ f[p].kind = "file"

\* The entries of directory p.
Listing(f, p) == {q \in DOMAIN f : Len(q) = Len(p) + 1 /\ Parent(q) = p}
\* Everything at or below root.
Under(f, root) == {q \in DOMAIN f : IsPrefix(root, q)}
\* The tree at root, as a function of the paths relative to it.
TreeAt(f, root) ==
    [r \in {RelPath(q, root) : q \in Under(f, root)} |-> f[Join(root, r)]]

---------------------------------------------------------------------------
(* The trees the runs start from. *)

RelPaths(names) ==
    {<<n>> : n \in names} \cup {<<n, m>> : n \in names, m \in names}

NodeVariants ==
    {DirNode} \cup {FileNode(c, r) : c \in Contents, r \in BOOLEAN}

\* A tree: every entry's parent is a directory of the tree.
WellFormedTree(t) ==
    \A p \in DOMAIN t : Len(p) > 1 =>
        (Parent(p) \in DOMAIN t /\ t[Parent(p)].kind = "dir")

Unreadable(t) == {p \in DOMAIN t : ~t[p].readable}

Trees(names, maxNodes, maxUnreadable) ==
    UNION {
        {t \in [D -> NodeVariants] :
            WellFormedTree(t) /\ Cardinality(Unreadable(t)) <= maxUnreadable}
        : D \in {E \in SUBSET RelPaths(names) : Cardinality(E) <= maxNodes}}

EmptyTree == [p \in {} |-> DirNode]

RootKinds == {"dir", "missing", "file"}

\* The tree t placed at root; a root that is missing or a regular file
\* has nothing below it.
Mount(root, kind, t) ==
    CASE kind = "missing" -> EmptyTree
      [] kind = "file" -> (root :> FileNode(<<1>>, TRUE))
      [] OTHER ->
            (root :> DirNode) @@
            [p \in {Join(root, r) : r \in DOMAIN t} |-> t[RelPath(p, root)]]

\* The roots and trees a run may start from.
StartFs(names, maxS, maxT) ==
    {Mount(source_dir, sk, s) @@ Mount(target_dir, tk, t) :
        <<sk, s, tk, t>> \in
            {x \in RootKinds \X Trees(names, maxS, MaxUnreadable)
                   \X RootKinds \X Trees(names, maxT, 0) :
                /\ (x[1] # "dir" => x[2] = EmptyTree)
                /\ (x[3] # "dir" => x[4] = EmptyTree)}}

---------------------------------------------------------------------------
(* FileMetadata: get_file_hash, get_file_metadata. *)

\* iter(lambda: file.read(block_size), b""): the chunks read until b"".
RECURSIVE ReadChunks(_, _)
ReadChunks(data, pos) ==
    IF pos > Len(data) THEN <<>>
    ELSE LET last == IF pos + block_size - 1 < Len(data)
                     THEN pos + block_size - 1 ELSE Len(data)
         IN  <<SubSeq(data, pos, last)>> \o ReadChunks(data, last + 1)

\* hash_obj.update(chunk) for each chunk: the bytes fed to the digest.
RECURSIVE UpdateAll(_, _)
UpdateAll(state, chunks) ==
    IF chunks = <<>> THEN state
    ELSE UpdateAll(state \o Head(chunks), Tail(chunks))

\* hash_obj.hexdigest(): an injective encoding of the bytes fed.
RECURSIVE HexDigest(_)
HexDigest(state) ==
    IF state = <<>> THEN 1
    ELSE HexDigest(SubSeq(state, 1, Len(state) - 1)) * 256
            + state[Len(state)]

\* open(file_path, "rb") succeeds on a readable regular file.
CanOpenRead(f, p) == IsFile(f, p) /\ f[p].readable

get_file_hash(f, p) ==
    IF CanOpenRead(f, p)
    THEN [ok |-> TRUE,
          value |-> HexDigest(UpdateAll(<<>>, ReadChunks(f[p].data, 1)))]
    ELSE [ok |-> FALSE, value |-> 0]

\* os.path.splitext(path)[1]: a leading dot starts no extension.
SplitExt(p) ==
    CASE Basename(p) = "a.txt" -> ".txt"
      [] OTHER -> ""

\* FileMetadata(file_extension, file_size, file_hash).as_tuple()
get_file_metadata(f, p) ==
    LET h == get_file_hash(f, p)
    IN  IF Exists(f, p) /\ h.ok
        THEN [ok |-> TRUE, value |-> <<SplitExt(p), Len(f[p].data), h.value>>]
        ELSE [ok |-> FALSE, value |-> <<>>]

---------------------------------------------------------------------------
(* os.walk and compare_directories. *)

\* The orders in which a set may be listed.
Perms(S) ==
    {q \in [1..Cardinality(S) -> S] :
        \A i, j \in 1..Cardinality(S) : q[i] = q[j] => i = j}

\* os.scandir returns a directory's entries in an order of its own: one
\* listing order for each directory at or below top.
ScanOrders(f, top) ==
    LET dirs == {d \in Under(f, top) : IsDir(f, d)}
    IN  {o \in [dirs -> UNION {Perms(Listing(f, d)) : d \in dirs}] :
            \A d \in dirs : o[d] \in Perms(Listing(f, d))}

\* os.walk(top), top-down: the files of a directory, then its
\* subdirectories in turn.  A top that cannot be listed yields nothing.
RECURSIVE WalkDir(_, _, _), WalkDirs(_, _, _)
WalkDir(f, d, order) ==
    LET IsSubdir(q) == IsDir(f, q)
        IsNondir(q) == ~IsDir(f, q)
    IN  SelectSeq(order[d], IsNondir)
            \o WalkDirs(f, SelectSeq(order[d], IsSubdir), order)
WalkDirs(f, ds, order) ==
    IF ds = <<>> THEN <<>>
    ELSE WalkDir(f, Head(ds), order) \o WalkDirs(f, Tail(ds), order)

Walk(f, top, order) ==
    IF top \in DOMAIN f /\ IsDir(f, top) THEN WalkDir(f, top, order) ELSE <<>>

Result(source_path, target_path, action) ==
    [source_path |-> source_path, target_path |-> target_path,
     action |-> action]

\* The body of the loop of compare_directories for one source file:
\* the action, or "raise" when reading either file fails.
Classify(f, source_path, target_path) ==
    IF IsFile(f, target_path)
    THEN LET source_metadata == get_file_metadata(f, source_path)
             target_metadata == get_file_metadata(f, target_path)
         IN  IF ~source_metadata.ok \/ ~target_metadata.ok THEN "raise"
             ELSE IF source_metadata.value = target_metadata.value
                  THEN NO_ACTION
                  ELSE MODIFY
    ELSE COPY

\* The loop over the walked files; an exception ends it and nothing is
\* returned.
RECURSIVE CompareLoop(_, _, _, _, _)
CompareLoop(f, src, tgt, files, results) ==
    IF files = <<>>
    THEN [status |-> "ok", results |-> results, error_path |-> <<>>]
    ELSE LET source_path == Head(files)
             target_path == Join(tgt, RelPath(source_path, src))
             action == Classify(f, source_path, target_path)
         IN  IF action = "raise"
             THEN [status |-> "IOError", results |-> <<>>,
                   error_path |-> IF get_file_metadata(f, source_path).ok
                                  THEN target_path ELSE source_path]
             ELSE CompareLoop(f, src, tgt, Tail(files),
                    Append(results, Result(source_path, target_path, action)))

compare_directories(f, src, tgt, order) ==
    CompareLoop(f, src, tgt, Walk(f, src, order), <<>>)

---------------------------------------------------------------------------
(* shutil.copy2 and do_action. *)

\* shutil.copy2(src, dst): a dst that is a directory stands for the entry
\* of src's name inside it; src is opened for reading, then dst for
\* writing (its directory must exist, and it must not be a directory).
CopyDest(f, src, dst) ==
    IF IsDir(f, dst) THEN Join(dst, <<Basename(src)>>) ELSE dst

copy2(f, src, dst) ==
    LET real == CopyDest(f, src, dst)
    IN  IF src = real \/ ~CanOpenRead(f, src)
        THEN [ok |-> FALSE, fs |-> f, error_path |-> src]
        ELSE IF ~IsDir(f, Parent(real)) \/ IsDir(f, real)
        THEN [ok |-> FALSE, fs |-> f, error_path |-> real]
        ELSE [ok |-> TRUE,
              fs |-> (real :> FileNode(f[src].data, f[src].readable)) @@ f,
              error_path |-> <<>>]

\* Action.get_name()
get_name(action) ==
    CASE action = COPY -> "Copy"
      [] action = MODIFY -> "Modify"
      [] OTHER -> "No Action"

\* Action.mutation_options() is a set: it is iterated in hash order, which
\* differs from one interpreter run to the next.
mutation_options == Perms({COPY, MODIFY})

\* group_by(results, itemgetter(2)).get(key, [])
group_by(results, key) ==
    LET HasKey(r) == r.action = key
    IN  SelectSeq(results, HasKey)

\* Chain as it would be if the Copy and Modify entries were taken together
\* in discovery order.
ChainInDiscoveryOrder(results, options) ==
    LET Wanted(r) == \E i \in 1..Len(options) : r.action = options[i]
    IN  SelectSeq(results, Wanted)

\* chain(*map(lambda key: grouped.get(key, []), options))
RECURSIVE Chain(_, _)
Chain(results, options) ==
    IF options = <<>> THEN <<>>
    ELSE group_by(results, Head(options)) \o Chain(results, Tail(options))

\* A line do_action prints.
Line(label, source_path, target_path, dry) ==
    [label |-> label, source_path |-> source_path,
     target_path |-> target_path, dry_run |-> dry]

RECURSIVE SkippedLines(_)
SkippedLines(to_be_skipped) ==
    IF to_be_skipped = <<>> THEN <<>>
    ELSE <<Line("No action", Head(to_be_skipped).source_path, <<>>, FALSE)>>
            \o SkippedLines(Tail(to_be_skipped))

\* MutateLoop as it would be if a failing copy2 were caught and passed
\* over in silence.
RECURSIVE MutateLoopSwallows(_, _, _, _)
MutateLoopSwallows(f, entries, dry_run, printed) ==
    IF entries = <<>>
    THEN [status |-> "ok", fs |-> f, printed |-> printed, error_path |-> <<>>,
          failed_entry |-> <<>>]
    ELSE LET e == Head(entries)
             out == Line(get_name(e.action), e.source_path, e.target_path,
                         dry_run)
             c == copy2(f, e.source_path, e.target_path)
         IN  IF dry_run
             THEN MutateLoopSwallows(f, Tail(entries), dry_run,
                                     Append(printed, out))
             ELSE IF c.ok
             THEN MutateLoopSwallows(c.fs, Tail(entries), dry_run,
                                     Append(printed, out))
             ELSE MutateLoopSwallows(f, Tail(entries), dry_run, printed)

\* The loop over the Copy and Modify entries; a failing copy2 raises out
\* of do_action before the entry's line is printed.
RECURSIVE MutateLoop(_, _, _, _)
MutateLoop(f, entries, dry_run, printed) ==
    IF entries = <<>>
    THEN [status |-> "ok", fs |-> f, printed |-> printed, error_path |-> <<>>,
          failed_entry |-> <<>>]
    ELSE LET e == Head(entries)
             out == Line(get_name(e.action), e.source_path, e.target_path,
                         dry_run)
         IN  IF dry_run
             THEN MutateLoop(f, Tail(entries), dry_run, Append(printed, out))
             ELSE LET c == copy2(f, e.source_path, e.target_path)
                  IN  IF c.ok
                      THEN MutateLoop(c.fs, Tail(entries), dry_run,
                                      Append(printed, out))
                      ELSE [status |-> "IOError", fs |-> f,
                            printed |-> printed, error_path |-> c.error_path,
                            failed_entry |-> <<e>>]

\* do_action as it would be with dry_run=False as the default.
do_action_commits_by_default(f, results, args, options) ==
    LET dry_run == IF args = <<>> THEN FALSE ELSE args[1]
        to_be_skipped == group_by(results, NO_ACTION)
    IN  MutateLoop(f, Chain(results, options), dry_run,
                   SkippedLines(to_be_skipped))

\* do_action(results, dry_run=True): args holds the dry_run argument when
\* one is passed.
do_action(f, results, args, options) ==
    LET dry_run == IF args = <<>> THEN TRUE ELSE args[1]
        to_be_skipped == group_by(results, NO_ACTION)
    IN  MutateLoop(f, Chain(results, options), dry_run,
                   SkippedLines(to_be_skipped))

---------------------------------------------------------------------------
(* filecmp.dircmp and are_directories_equal. *)

\* dircmp.left_list / right_list: os.listdir filtered by hide + ignore;
\* ignore=None stands for DEFAULT_IGNORES.
dircmp_list(f, d) ==
    {Basename(q) : q \in Listing(f, d)} \ (DEFAULT_IGNORES \cup {".", ".."})

\* filecmp.cmp(a, b, shallow=False) as _cmp calls it: 0 same, 1 different,
\* 2 when a file cannot be read.
filecmp_cmp(f, a, b) ==
    IF ~IsFile(f, a) \/ ~IsFile(f, b) THEN 1
    ELSE IF Len(f[a].data) # Len(f[b].data) THEN 1
    ELSE IF ~CanOpenRead(f, a) \/ ~CanOpenRead(f, b) THEN 2
    ELSE IF f[a].data = f[b].data THEN 0 ELSE 1

\* The attributes of dircmp(dir1, dir2, ignore=None, shallow=False).
dircmp(f, dir1, dir2) ==
    LET left_list == dircmp_list(f, dir1)
        right_list == dircmp_list(f, dir2)
        common == left_list \cap right_list
        a(x) == Join(dir1, <<x>>)
        b(x) == Join(dir2, <<x>>)
        common_dirs == {x \in common : IsDir(f, a(x)) /\ IsDir(f, b(x))}
        common_files == {x \in common : IsFile(f, a(x)) /\ IsFile(f, b(x))}
    IN  [left_only |-> left_list \ right_list,
         right_only |-> right_list \ left_list,
         common_dirs |-> common_dirs,
         common_files |-> common_files,
         common_funny |-> common \ (common_dirs \cup common_files),
         diff_files |-> {x \in common_files : filecmp_cmp(f, a(x), b(x)) = 1},
         funny_files |-> {x \in common_files : filecmp_cmp(f, a(x), b(x)) = 2}]

\* "raise" when a directory cannot be listed, else "True" or "False".
RECURSIVE are_directories_equal(_, _, _)
are_directories_equal(f, dir1, dir2) ==
    IF ~IsDir(f, dir1) \/ ~IsDir(f, dir2) THEN "raise"
    ELSE LET comparison == dircmp(f, dir1, dir2)
         IN  IF \/ comparison.left_only # {}
                \/ comparison.right_only # {}
                \/ comparison.diff_files # {}
                \/ comparison.funny_files # {}
             THEN "False"
             ELSE IF \E common_dir \in comparison.common_dirs :
                        are_directories_equal(f, Join(dir1, <<common_dir>>),
                                                 Join(dir2, <<common_dir>>))
                            # "True"
                  THEN "False"
                  ELSE "True"

---------------------------------------------------------------------------
(* The runs. *)

NoDiff == [status |-> "none", results |-> <<>>, error_path |-> <<>>]
NoApply ==
    [status |-> "none", printed |-> <<>>, error_path |-> <<>>,
     failed_entry |-> <<>>, args |-> <<>>, options |-> <<>>]

Start(files) ==
    /\ fs \in files
    /\ fs_start = fs
    /\ diff1 = NoDiff
    /\ applied = NoApply
    /\ diff2 = NoDiff
    /\ equal = "none"

Init ==
    /\ Start(StartFs(Names, MaxSourceNodes, MaxTargetNodes))
    /\ pc = "start"

\* main(): results = compare_directories(args.source_dir, args.target_dir)
Diff ==
    /\ pc = "start"
    /\ \E order \in ScanOrders(fs, source_dir) :
            diff1' = compare_directories(fs, source_dir, target_dir, order)
    /\ pc' = IF diff1'.status = "ok" THEN "diffed" ELSE "failed"
    /\ UNCHANGED <<fs, fs_start, applied, diff2, equal>>

\* main(): do_action(results) or do_action(results, dry_run)
Apply ==
    /\ pc = "diffed"
    /\ \E args \in {<<>>, <<TRUE>>, <<FALSE>>}, options \in mutation_options :
            LET done == do_action(fs, diff1.results, args, options)
            IN  /\ fs' = done.fs
                /\ applied' = [status |-> done.status,
                               printed |-> done.printed,
                               error_path |-> done.error_path,
                               failed_entry |-> done.failed_entry,
                               args |-> args, options |-> options]
    /\ pc' = "applied"
    /\ UNCHANGED <<fs_start, diff1, diff2, equal>>

\* The comparison run again after do_action.
Rediff ==
    /\ pc = "applied"
    /\ \E order \in ScanOrders(fs, source_dir) :
            diff2' = compare_directories(fs, source_dir, target_dir, order)
    /\ pc' = "rediffed"
    /\ UNCHANGED <<fs, fs_start, diff1, applied, equal>>

Next == Diff \/ Apply \/ Rediff

Spec == Init /\ [][Next]_vars

\* are_directories_equal applied to two trees.
InitEq ==
    /\ Start(StartFs(EqNames, MaxEqNodes, MaxEqNodes))
    /\ pc = "eq"

\* filecmp.dircmp takes the keyword shallow from Python 3.13 on; an older
\* interpreter raises TypeError at the call.
AreDirectoriesEqual ==
    /\ pc = "eq"
    /\ \E dircmp_takes_shallow \in BOOLEAN :
            equal' = IF dircmp_takes_shallow
                     THEN are_directories_equal(fs, source_dir, target_dir)
                     ELSE "TypeError"
    /\ pc' = "eq_done"
    /\ UNCHANGED <<fs, fs_start, diff1, applied, diff2>>

NextEq == AreDirectoriesEqual

SpecEq == InitEq /\ [][NextEq]_vars

---------------------------------------------------------------------------
(* Vocabulary of the properties. *)

Range(q) == {q[i] : i \in 1..Len(q)}

RootsAreDirectories(f) ==
    /\ source_dir \in DOMAIN f /\ IsDir(f, source_dir)
    /\ target_dir \in DOMAIN f /\ IsDir(f, target_dir)

\* The regular files below the source root.
SourceFiles(f) == {p \in Under(f, source_dir) : p # source_dir /\ IsFile(f, p)}

AllReadable(f) == \A p \in DOMAIN f : f[p].readable

\* Both files can be fingerprinted and the fingerprints are equal.
SameFingerprint(f, a, b) ==
    /\ get_file_metadata(f, a).ok
    /\ get_file_metadata(f, b).ok
    /\ get_file_metadata(f, a).value = get_file_metadata(f, b).value

IsMutation(r) == r.action \in {COPY, MODIFY}
Mutations(results) == SelectSeq(results, IsMutation)

Diffed == pc \in {"diffed", "applied", "rediffed"}
Applied == pc \in {"applied", "rediffed"}
Committed == Applied /\ applied.args = <<FALSE>>
DryRun == Applied /\ applied.args \in {<<>>, <<TRUE>>}

\* The lines do_action printed for Copy and Modify entries.
IsMutationLine(l) == l.label # "No action"
MutationLines(printed) == SelectSeq(printed, IsMutationLine)
SkippedBlock(printed) == SubSeq(printed, 1, Len(printed) - Len(MutationLines(printed)))

\* The line an entry is reported with.
LineOf(r, dry) ==
    IF r.action = NO_ACTION
    THEN Line("No action", r.source_path, <<>>, FALSE)
    ELSE Line(IF r.action = COPY THEN "Copy" ELSE "Modify",
              r.source_path, r.target_path, dry)
LinesOf(entries, dry) == [i \in 1..Len(entries) |-> LineOf(entries[i], dry)]

IsPrefixSeq(a, b) == Len(a) <= Len(b) /\ SubSeq(b, 1, Len(a)) = a

---------------------------------------------------------------------------
(* C1.  compare_directories gives a source file Copy exactly when nothing
   of any type is at its target path, Modify exactly when the target path
   exists and the fingerprints differ, NoAction exactly when the target
   path exists and the fingerprints are identical; also when the target
   path is a directory. *)
C1_ActionKinds ==
    (Diffed /\ RootsAreDirectories(fs_start) /\ AllReadable(fs_start)) =>
        \A r \in Range(diff1.results) :
            /\ r.action = COPY <=> ~Exists(fs_start, r.target_path)
            /\ r.action = MODIFY <=>
                    (/\ Exists(fs_start, r.target_path)
                     /\ ~SameFingerprint(fs_start, r.source_path, r.target_path))
            /\ r.action = NO_ACTION <=>
                    (/\ Exists(fs_start, r.target_path)
                     /\ SameFingerprint(fs_start, r.source_path, r.target_path))

(* C2.  Diff, then do_action with commit, then diff again: every file the
   first diff gave Copy or Modify is NoAction in the second diff, also a
   Copy whose target lies in a subdirectory the target tree lacks. *)
C2_Idempotent ==
    (pc = "rediffed" /\ Committed
        /\ RootsAreDirectories(fs_start) /\ AllReadable(fs_start)) =>
        \A r \in Range(diff1.results) :
            IsMutation(r) =>
                \E r2 \in Range(diff2.results) :
                    r2.source_path = r.source_path /\ r2.action = NO_ACTION

(* C3.  After do_action with commit the target of every Copy and Modify
   entry is a file with the source file's bytes: missing parent directories
   are created for a Copy, the previous content is overwritten for a
   Modify. *)
C3_Materialized ==
    (Committed /\ RootsAreDirectories(fs_start) /\ AllReadable(fs_start)) =>
        \A r \in Range(diff1.results) :
            (IsMutation(r) /\ ~IsDir(fs_start, r.target_path)) =>
                /\ IsFile(fs, r.target_path)
                /\ fs[r.target_path].data = fs_start[r.source_path].data

(* C4.  do_action with dry_run true, passed or by default, writes nothing:
   the whole filesystem, the target tree included, is as it was. *)
C4_DryRunPure == DryRun => fs = fs_start

\* A default dry run over a list holding a Copy and a Modify entry.
C4_Witness ==
    /\ pc = "applied" /\ applied.args = <<>>
    /\ \E l \in Range(applied.printed) : l.label = "Copy" /\ l.dry_run
    /\ \E l \in Range(applied.printed) : l.label = "Modify" /\ l.dry_run

\* The entries do_action goes through after the NoAction block, and the
\* place each one's copy writes.
Plan == Chain(diff1.results, applied.options)
Dest(r) == CopyDest(fs_start, r.source_path, r.target_path)
Processed == Len(MutationLines(applied.printed))

(* C5, as claimed.  When the copy of one entry fails in a committed
   do_action, the other entries are still processed: each one whose own
   copy can succeed is reported and copied. *)
C5_FaultIsolation ==
    (Committed /\ applied.status = "IOError") =>
        \A r \in Range(Mutations(diff1.results)) :
            copy2(fs_start, r.source_path, r.target_path).ok =>
                /\ LineOf(r, FALSE) \in Range(applied.printed)
                /\ IsFile(fs, Dest(r))
                /\ fs[Dest(r)].data = fs_start[r.source_path].data

(* C5, amended.  A committed do_action stops at the first entry whose copy
   fails and raises that entry's error: the entries before it are reported
   and copied, that entry and the ones after it are neither reported nor
   copied, and do_action ends without an error only when every entry was
   reported and copied. *)
C5_AbortsAtFirstFailure ==
    Committed =>
        /\ Processed <= Len(Plan)
        /\ MutationLines(applied.printed)
                = LinesOf(SubSeq(Plan, 1, Processed), FALSE)
        /\ \A i \in 1..Processed :
                /\ IsFile(fs, Dest(Plan[i]))
                /\ fs[Dest(Plan[i])].data = fs_start[Plan[i].source_path].data
        /\ \A p \in (DOMAIN fs \cup DOMAIN fs_start)
                        \ {Dest(Plan[i]) : i \in 1..Processed} :
                p \in DOMAIN fs /\ p \in DOMAIN fs_start /\ fs[p] = fs_start[p]
        /\ applied.status \in {"ok", "IOError"}
        /\ applied.status = "ok" => Processed = Len(Plan)
        /\ applied.status = "IOError" =>
                /\ Processed < Len(Plan)
                /\ applied.failed_entry = <<Plan[Processed + 1]>>
                /\ applied.error_path # <<>>

\* A copy fails after one entry was copied and before another entry.
C5_Witness ==
    /\ pc = "applied" /\ Committed /\ applied.status = "IOError"
    /\ Processed >= 1
    /\ Processed + 1 < Len(Plan)

IsSkipped(r) == r.action = NO_ACTION
Skipped(results) == SelectSeq(results, IsSkipped)
OfKind(results, kind) ==
    LET IsKind(r) == r.action = kind
    IN  SelectSeq(results, IsKind)

(* C6, as claimed.  do_action reports the NoAction entries first, in
   discovery order, and then the Copy and Modify entries together in
   discovery order, not grouped by kind. *)
C6_DiscoveryOrder ==
    (Applied /\ applied.status = "ok") =>
        applied.printed =
            LinesOf(Skipped(diff1.results), FALSE)
                \o LinesOf(Mutations(diff1.results), applied.args # <<FALSE>>)

(* C6, amended.  do_action reports the NoAction entries first, in discovery
   order, and then the Copy and Modify entries grouped by kind: all entries
   of one kind in discovery order, then all entries of the other kind in
   discovery order; which kind comes first is not fixed. *)
C6_GroupedByKind ==
    Applied =>
        \E kinds \in {<<COPY, MODIFY>>, <<MODIFY, COPY>>} :
            LET dry == applied.args # <<FALSE>>
                expected ==
                    LinesOf(Skipped(diff1.results), FALSE)
                        \o LinesOf(OfKind(diff1.results, kinds[1]), dry)
                        \o LinesOf(OfKind(diff1.results, kinds[2]), dry)
            IN  /\ IsPrefixSeq(applied.printed, expected)
                /\ applied.status = "ok" => applied.printed = expected

\* do_action has reported a list in which a Modify entry was discovered
\* between two Copy entries.
C6_Witness ==
    /\ pc = "applied" /\ applied.status = "ok"
    /\ Len(MutationLines(applied.printed)) = 3
    /\ LET m == Mutations(diff1.results)
       IN  Len(m) = 3 /\ m[1].action = COPY /\ m[2].action = MODIFY
                /\ m[3].action = COPY

(* C7.  A committed do_action leaves every path that is not the target
   path of a Copy or Modify result as it was: no such path is written,
   created or removed, also when a Copy entry's target path is an existing
   directory. *)
C7_Frame ==
    Committed =>
        \A p \in (DOMAIN fs \cup DOMAIN fs_start)
                    \ {r.target_path : r \in Range(Mutations(diff1.results))} :
            p \in DOMAIN fs /\ p \in DOMAIN fs_start /\ fs[p] = fs_start[p]

(* C8.  When a source file is unreadable, compare_directories fails with
   an I/O error for that file, and every other source file is still
   classified. *)
C8_UnreadableSource ==
    (pc \in {"diffed", "failed", "applied", "rediffed"}
        /\ RootsAreDirectories(fs_start)) =>
        \A u \in SourceFiles(fs_start) :
            ~fs_start[u].readable =>
                /\ diff1.status = "IOError"
                /\ diff1.error_path = u
                /\ \A p \in SourceFiles(fs_start) \ {u} :
                        \E r \in Range(diff1.results) : r.source_path = p

(* C9.  compare_directories fails with a configuration error when the
   source root or the target root is missing or is not a directory; it
   returns no result list then. *)
C9_RootValidation ==
    (pc \in {"diffed", "failed", "applied", "rediffed"}
        /\ ~RootsAreDirectories(fs_start)) =>
        diff1.status = "ConfigurationError"

(* C10.  are_directories_equal, when it returns, is true exactly when the
   two trees hold the same relative paths, with the same type at each, and
   every pair of regular files has the same bytes; no name is exempt. *)
C10_DeepEquality ==
    (pc = "eq_done" /\ equal \in {"True", "False"}
        /\ RootsAreDirectories(fs) /\ AllReadable(fs)) =>
        (equal = "True" <=> TreeAt(fs, source_dir) = TreeAt(fs, target_dir))

=============================================================================
